---- MODULE Spec2Model ----
(***************************************************************************)
(* Model of the view/camera core of the scene viewer                       *)
(* (Source/ViewManager.cpp): the mouse-look callback, the scroll callback, *)
(* the per-frame clock and keyboard polling, and the projection-mode       *)
(* switch.                                                                 *)
(*                                                                         *)
(* Floats are modelled in fixed point.  Unit vectors and trigonometric     *)
(* values carry Scale units per 1.0, angles AngleUnit units per degree,    *)
(* the speed scale SpeedUnit units per 1.0, time TicksPerSecond ticks per  *)
(* second, and positions PosScale units per world unit, so that            *)
(* Position += Front * velocity is exact integer arithmetic.               *)
(***************************************************************************)
EXTENDS Integers, Sequences, FiniteSets, TLC

(***************************************************************************)
(* Fixed-point representation                                              *)
(***************************************************************************)
Scale == 10000
AngleUnit == 100
SpeedUnit == 10
TicksPerSecond == 10
PosScale == Scale * SpeedUnit * TicksPerSecond

\* a / b rounded to the nearest integer (b > 0)
RoundDiv(a, b) == (2 * a + b) \div (2 * b)

RECURSIVE IsqrtIter(_, _)
IsqrtIter(n, x) ==
    LET y == (x + n \div x) \div 2
    IN  IF y >= x THEN x ELSE IsqrtIter(n, y)

\* square root rounded to the nearest integer
Sqrt(n) ==
    IF n = 0 THEN 0
    ELSE LET r == IsqrtIter(n, n)
         IN  IF n - r * r > r THEN r + 1 ELSE r

(***************************************************************************)
(* glm vector helpers on <<x, y, z>> triples                               *)
(***************************************************************************)
Dot(a, b) == a[1] * b[1] + a[2] * b[2] + a[3] * b[3]

\* glm::normalize: v * inversesqrt(dot(v, v))
Normalize(v) ==
    LET l == Sqrt(Dot(v, v))
    IN  << RoundDiv(v[1] * Scale, l),
           RoundDiv(v[2] * Scale, l),
           RoundDiv(v[3] * Scale, l) >>

\* glm::cross of two Scale-scaled vectors
Cross(a, b) ==
    << RoundDiv(a[2] * b[3] - a[3] * b[2], Scale),
       RoundDiv(a[3] * b[1] - a[1] * b[3], Scale),
       RoundDiv(a[1] * b[2] - a[2] * b[1], Scale) >>

VecAdd(a, b) == << a[1] + b[1], a[2] + b[2], a[3] + b[3] >>
VecSub(a, b) == << a[1] - b[1], a[2] - b[2], a[3] - b[3] >>
VecScale(a, k) == << a[1] * k, a[2] * k, a[3] * k >>

(***************************************************************************)
(* <cmath> on fixed-point values: angles in AngleUnit per degree, results  *)
(* in Scale per 1.0                                                        *)
(***************************************************************************)
\* glm::radians, result in Scale units per radian
Radians(a) == RoundDiv(a * 17453, 10000)

SinSeries(x) ==
    LET x2 == RoundDiv(x * x, Scale)
        t3 == RoundDiv(x * x2, 6 * Scale)
        t5 == RoundDiv(t3 * x2, 20 * Scale)
        t7 == RoundDiv(t5 * x2, 42 * Scale)
    IN  x - t3 + t5 - t7

CosSeries(x) ==
    LET x2 == RoundDiv(x * x, Scale)
        c2 == RoundDiv(x2, 2)
        c4 == RoundDiv(c2 * x2, 12 * Scale)
        c6 == RoundDiv(c4 * x2, 30 * Scale)
        c8 == RoundDiv(c6 * x2, 56 * Scale)
    IN  Scale - c2 + c4 - c6 + c8

\* sine of an angle in the first quadrant
SinQ(a) ==
    IF a <= 45 * AngleUnit
    THEN SinSeries(Radians(a))
    ELSE CosSeries(Radians(90 * AngleUnit - a))

\* std::sin(glm::radians(a))
Sin(a) ==
    LET m == a % (360 * AngleUnit)
    IN  IF m <= 90 * AngleUnit THEN SinQ(m)
        ELSE IF m <= 180 * AngleUnit THEN SinQ(180 * AngleUnit - m)
        ELSE IF m <= 270 * AngleUnit THEN -SinQ(m - 180 * AngleUnit)
        ELSE -SinQ(360 * AngleUnit - m)

\* std::cos(glm::radians(a))
Cos(a) == Sin(a + 90 * AngleUnit)

RECURSIVE AsinSearch(_, _, _)
AsinSearch(y, lo, hi) ==
    IF hi - lo <= 1
    THEN IF y - Sin(lo) <= Sin(hi) - y THEN lo ELSE hi
    ELSE LET mid == (lo + hi) \div 2
         IN  IF Sin(mid) <= y
             THEN AsinSearch(y, mid, hi)
             ELSE AsinSearch(y, lo, mid)

\* glm::degrees(std::asin(y))
Asin(y) ==
    IF y >= Scale THEN 90 * AngleUnit
    ELSE IF y <= -Scale THEN -90 * AngleUnit
    ELSE AsinSearch(y, -90 * AngleUnit, 90 * AngleUnit)

\* glm::degrees(std::atan2(y, x))
Atan2(y, x) ==
    LET r == Sqrt(x * x + y * y)
        a == IF r = 0 THEN 0 ELSE Asin(RoundDiv(y * Scale, r))
    IN  IF x >= 0 THEN a
        ELSE IF y >= 0 THEN 180 * AngleUnit - a
        ELSE -180 * AngleUnit - a

(***************************************************************************)
(* glm matrices.  A mat4 is written as the glm call that builds it, with   *)
(* the values of its arguments: two matrices built by the same call from   *)
(* the same arguments are the same matrix.                                 *)
(***************************************************************************)
\* glm::lookAt(eye, center, up)
LookAt(eye, center, up) == << "lookAt", eye, center, up >>

\* glm::perspective(glm::radians(fovy), aspect, zNear, zFar), fovy in degrees
Perspective(fovy, aspect, near, far) ==
    << "perspective", fovy, aspect, near, far >>

\* glm::ortho(left, right, bottom, top, zNear, zFar)
Ortho(left, right, bottom, top, near, far) ==
    << "ortho", left, right, bottom, top, near, far >>

(***************************************************************************)
(* Program constants                                                       *)
(***************************************************************************)
WINDOW_WIDTH == 1000
WINDOW_HEIGHT == 800
g_ViewName == "view"
g_ProjectionName == "projection"
gBaseMoveSpeed == 6
\* a sensitivity of one degree per pixel
gMouseSensitivity_Coarse == AngleUnit

\* 0.10 degrees per pixel
gMouseSensitivity == AngleUnit \div 10
\* the pitch clamp of the mouse-look callback, 89 degrees
PitchLimit == 89 * AngleUnit
\* a scroll step of 1.0
ScrollStep_Coarse == SpeedUnit

\* the scroll step 0.10 and the clamp [0.10, 5.00] of the speed scale
ScrollStep == SpeedUnit \div 10
SpeedMin == SpeedUnit \div 10
SpeedMax == 5 * SpeedUnit

\* the fixed camera of the orthographic view, and its half-extent 0.85
gOrthoTarget == << -2 * PosScale, (95 * PosScale) \div 100, -PosScale >>
gOrthoCamPos == << -2 * PosScale, (95 * PosScale) \div 100, 8 * PosScale >>
WorldUp == << 0, Scale, 0 >>
orthoSize == (85 * Scale) \div 100
\* the clip planes 0.1 and 100.0 of both projections
zNear == Scale \div 10
zFar == 100 * Scale
\* WINDOW_WIDTH / WINDOW_HEIGHT as a float
aspect == RoundDiv(WINDOW_WIDTH * Scale, WINDOW_HEIGHT)

\* the shader manager handed to the constructor
NULL == "NULL"
m_pShaderManager == "ShaderManager"

\* a zoom of 45 degrees instead of the constructor's
InitZoom_Narrow == 45 * AngleUnit

\* the pose the constructor gives the camera
InitPosition == << 0, 5 * PosScale, 12 * PosScale >>
InitFront == << 0, -(Scale \div 2), -2 * Scale >>
InitUp == << 0, Scale, 0 >>
InitZoom == 80 * AngleUnit

\* the yaw and pitch the constructor derives from the default front
DerivedYaw(front) == Atan2(front[3], front[1]) - 90 * AngleUnit
DerivedPitch(front) == Asin(front[2])
InitYaw == DerivedYaw(Normalize(InitFront))
InitPitch == DerivedPitch(Normalize(InitFront))

(***************************************************************************)
(* Inputs                                                                  *)
(***************************************************************************)
MoveKeys == {"W", "S", "A", "D", "Q", "E"}
Keys == {"ESCAPE", "O", "P"} \cup MoveKeys

\* the key states a poll may see: what glfwGetKey returns for each key
\* during one call of ProcessKeyboardEvents
KeySets ==
    { {}, {"O"}, {"P"}, {"O", "P"}, {"W"}, {"S", "D"}, {"A", "Q"},
      {"E"}, {"O", "W"}, {"ESCAPE", "P", "W"}, MoveKeys }

\* the vertical coordinate of a cursor sample far outside the window
HugeY == -100 * WINDOW_WIDTH

\* cursor samples: pixel coordinates
CursorSamples ==
    { << 500, 400 >>, << 550, 400 >>, << 500, 350 >>, << 500, HugeY >> }

\* vertical scroll samples
ScrollOffsets == {-60, 40}

\* horizontal components of scroll samples
ScrollXOffsets == {0, 5}

\* clock readings: ticks elapsed since the previous reading of glfwGetTime
\* (for the first frame, since the clock started); the clock is monotonic
\* and time passes between two frames
DeltaTimes == {1, 2}

(***************************************************************************)
(* SceneManager: the texture table                                         *)
(***************************************************************************)
\* the number of entries of m_textureIDs, and the limit CreateGLTexture tests
TextureLimit == 16

kUniformObjectColor == "objectColor"
kUniformTexture == "objectTexture"
kUniformUseTexture == "bUseTexture"

\* the ID of an entry no call has written: the constructor does not set it.
\* A written ID is the one-element sequence of its value.
Indeterminate == << >>

\* m_textureIDs after construction: default (empty) tags
EmptyTable ==
    [i \in 0 .. TextureLimit - 1 |-> [tag |-> "", ID |-> Indeterminate]]

\* the calls of CreateGLTexture made by PrepareScene, in order
SceneTextures ==
    << << "Textures/wood.jpg", "wood" >>,
       << "Textures/stainedglass.jpg", "stainedglass" >>,
       << "Textures/rubber.jpg", "rubber" >>,
       << "Textures/stainless.jpg", "stainless" >>,
       << "Textures/stainless_end.jpg", "stainless_end" >>,
       << "Textures/rusticwood.jpg", "rusticwood" >>,
       << "Textures/gold-seamless-texture.jpg", "gold" >>,
       << "Textures/backdrop.jpg", "backdrop" >> >>

\* what stbi_load yields for a file: no image (a null pointer), or an image
\* with this many channels
NoImage == << >>
Images == {NoImage, << 1 >>, << 3 >>, << 4 >>}

\* contents of the Textures directory: the image stbi_load yields per file
Disks ==
    { [f \in {SceneTextures[i][1] : i \in 1 .. Len(SceneTextures)} |-> << 3 >>],
      [f \in {SceneTextures[i][1] : i \in 1 .. Len(SceneTextures)} |->
          IF f = "Textures/rubber.jpg" THEN NoImage ELSE << 4 >>],
      [f \in {SceneTextures[i][1] : i \in 1 .. Len(SceneTextures)} |->
          IF f = "Textures/backdrop.jpg" THEN << 1 >> ELSE << 3 >>] }

\* arguments of single calls of CreateGLTexture: file name and tag
TextureArgs ==
    { << "Textures/wood.jpg", "wood" >>, << "Textures/marble.png", "marble" >> }

\* tags asked of SetShaderTexture
TextureTags == {"wood", "backdrop", "marble"}

\* bound of the exploration: cursor samples, scroll samples, frames and
\* scene manager calls in a run
MaxEvents == 4

(***************************************************************************)
(* State                                                                   *)
(***************************************************************************)
VARIABLES
    Position, Front, Up, Zoom,          \* g_pCamera
    gLastX, gLastY, gFirstMouse,        \* mouse state
    gDeltaTime, gLastFrame,             \* frame clock
    bOrthographicProjection,            \* projection mode
    gSpeedScale,                        \* movement speed tuning
    gYaw, gPitch,                       \* look angles
    gToggleKeyDown_O, gToggleKeyDown_P, \* one-tap key handling
    windowShouldClose,                  \* the close-requested flag
    published,                          \* uniforms the step handed to the shader
    m_pWindow,                          \* the window handle the manager keeps
    callbacks,                          \* input callbacks registered with GLFW
    created,                            \* what CreateDisplayWindow returned
    stdout,                             \* messages written to std::cout
    glfwTerminated,                     \* glfwTerminate has been called
    polled,                             \* key states seen by the latest poll
    nEvents, nFrames,                   \* callbacks and frames, frames so far
    sampleTrail,                        \* modes that consumed the latest samples
    entryPose,                          \* pose when Orthographic was entered
    holdPolls, holdChanges,             \* polls and mode changes of an O hold
    runLen, runStart,                   \* identical Perspective polls in a row
    m_loadedTextures, m_textureIDs,     \* the scene manager's texture table
    called                              \* the latest scene manager call, its result

camera == << Position, Front, Up, Zoom >>
mouse == << gLastX, gLastY, gFirstMouse >>
clock == << gDeltaTime, gLastFrame >>
look == << gYaw, gPitch >>
toggles == << gToggleKeyDown_O, gToggleKeyDown_P >>
pose == << Position, gYaw, gPitch, Front >>
hold == << holdPolls, holdChanges >>
run == << runLen, runStart >>
display == << m_pWindow, callbacks, created, stdout, glfwTerminated >>
textures == << m_loadedTextures, m_textureIDs >>
scene == << textures, called >>
vars == << camera, mouse, clock, bOrthographicProjection, gSpeedScale, look,
           toggles, windowShouldClose, published, display, polled, nEvents,
           nFrames, sampleTrail, entryPose, hold, run, scene >>

Init ==
    /\ Position = InitPosition
    /\ Front = InitFront
    /\ Up = InitUp
    /\ Zoom = InitZoom
    /\ gLastX = WINDOW_WIDTH \div 2
    /\ gLastY = WINDOW_HEIGHT \div 2
    /\ gFirstMouse = TRUE
    /\ gDeltaTime = 0
    /\ gLastFrame = 0
    /\ bOrthographicProjection = FALSE
    /\ gSpeedScale = SpeedUnit
    /\ gYaw = InitYaw
    /\ gPitch = InitPitch
    /\ gToggleKeyDown_O = FALSE
    /\ gToggleKeyDown_P = FALSE
    /\ windowShouldClose = FALSE
    /\ published = << >>
    /\ m_pWindow = NULL
    /\ callbacks = {}
    /\ created = "not called"
    /\ stdout = << >>
    /\ glfwTerminated = FALSE
    /\ polled = {}
    /\ nEvents = 0
    /\ nFrames = 0
    /\ sampleTrail = "none"
    /\ entryPose = << >>
    /\ holdPolls = 0
    /\ holdChanges = 0
    /\ runLen = 0
    /\ runStart = << >>
    /\ m_loadedTextures = 0
    /\ m_textureIDs = EmptyTable
    /\ called = << >>

(***************************************************************************)
(* CreateDisplayWindow                                                     *)
(***************************************************************************)
\* callbacks registered whether or not there is a window
CallbacksOf_Always(window) == {"CursorPos", "Scroll"}

\* the callbacks registered on the window: none when there is no window
CallbacksOf(window) ==
    IF window = NULL THEN {} ELSE {"CursorPos", "Scroll"}

\* window is what glfwCreateWindow returns: NULL when it fails
CreateDisplayWindow(window) ==
    /\ created = "not called"
    /\ IF window = NULL
       THEN /\ stdout' = Append(stdout, "Failed to create GLFW window")
            /\ glfwTerminated' = TRUE
            /\ UNCHANGED m_pWindow
       ELSE /\ m_pWindow' = window
            /\ UNCHANGED << stdout, glfwTerminated >>
    /\ callbacks' = CallbacksOf(window)
    /\ created' = window
    /\ UNCHANGED << camera, mouse, clock, bOrthographicProjection, gSpeedScale,
                    look, toggles, windowShouldClose, published, polled,
                    nEvents, nFrames, sampleTrail, entryPose, hold, run >>

(***************************************************************************)
(* Mouse_Position_Callback                                                 *)
(***************************************************************************)
\* a clamp that forgets the upper limit
ClampPitch_NoUpper(p) == IF p < -PitchLimit THEN -PitchLimit ELSE p

ClampPitch(p) ==
    IF p > PitchLimit THEN PitchLimit
    ELSE IF p < -PitchLimit THEN -PitchLimit
    ELSE p

\* the look direction of yaw and pitch, normalized
FrontFromAngles(yaw, pitch) ==
    Normalize(<< RoundDiv(Cos(yaw) * Cos(pitch), Scale),
                 Sin(pitch),
                 RoundDiv(Sin(yaw) * Cos(pitch), Scale) >>)

\* mouse look applied in either mode
LookApplies_Always(ortho) == TRUE

\* mouse look is applied in Perspective mode only
LookApplies(ortho) == ~ortho

\* offsets measured from the stored position, on the first sample too
LastCursor_NoSeed(x, y) == << gLastX, gLastY >>

\* the cursor position the offsets are measured from
LastCursor(x, y) ==
    IF gFirstMouse THEN << x, y >> ELSE << gLastX, gLastY >>

Mouse_Position_Callback(x, y) ==
    LET last == LastCursor(x, y)
        xoffset == (x - last[1]) * gMouseSensitivity
        yoffset == (last[2] - y) * gMouseSensitivity
        yaw == gYaw + xoffset
        pitch == ClampPitch(gPitch + yoffset)
    IN  /\ nEvents < MaxEvents
        /\ nEvents' = nEvents + 1
        /\ gFirstMouse' = FALSE
        /\ gLastX' = x
        /\ gLastY' = y
        /\ IF LookApplies(bOrthographicProjection)
           THEN /\ gYaw' = yaw
                /\ gPitch' = pitch
                /\ Front' = FrontFromAngles(yaw, pitch)
           ELSE UNCHANGED << gYaw, gPitch, Front >>
        /\ sampleTrail' =
              IF bOrthographicProjection THEN "ortho"
              ELSE IF sampleTrail = "ortho" THEN "ortho-persp"
              ELSE "persp"
        /\ runLen' = 0
        /\ runStart' = << >>
        /\ published' = << >>
        /\ UNCHANGED << Position, Up, Zoom, clock, bOrthographicProjection,
                        gSpeedScale, toggles, windowShouldClose, polled,
                        nFrames, entryPose, hold, display >>

(***************************************************************************)
(* Mouse_Scroll_Callback                                                   *)
(***************************************************************************)
\* a clamp that forgets the lower limit
ClampSpeed_NoLower(s) == IF s > SpeedMax THEN SpeedMax ELSE s

ClampSpeed(s) ==
    IF s < SpeedMin THEN SpeedMin
    ELSE IF s > SpeedMax THEN SpeedMax
    ELSE s

\* a change of the speed scale that counts the horizontal component too
ScrollDelta_Both(xOffset, yOffset) == (xOffset + yOffset) * ScrollStep

\* the change of the speed scale a scroll sample asks for
ScrollDelta(xOffset, yOffset) == yOffset * ScrollStep

\* a scroll callback that also releases the one-tap flags
Mouse_Scroll_Callback_ReleasesKeys(xOffset, yOffset) ==
    /\ nEvents < MaxEvents
    /\ nEvents' = nEvents + 1
    /\ gSpeedScale' = ClampSpeed(gSpeedScale + ScrollDelta(xOffset, yOffset))
    /\ gToggleKeyDown_O' = FALSE
    /\ gToggleKeyDown_P' = FALSE
    /\ runLen' = 0
    /\ runStart' = << >>
    /\ published' = << >>
    /\ UNCHANGED << camera, mouse, clock, bOrthographicProjection, look,
                    windowShouldClose, polled, nFrames, sampleTrail,
                    entryPose, hold, display >>

Mouse_Scroll_Callback(xOffset, yOffset) ==
    /\ nEvents < MaxEvents
    /\ nEvents' = nEvents + 1
    /\ gSpeedScale' = ClampSpeed(gSpeedScale + ScrollDelta(xOffset, yOffset))
    /\ runLen' = 0
    /\ runStart' = << >>
    /\ published' = << >>
    /\ UNCHANGED << camera, mouse, clock, bOrthographicProjection, look,
                    toggles, windowShouldClose, polled, nFrames, sampleTrail,
                    entryPose, hold, display >>

(***************************************************************************)
(* ProcessKeyboardEvents, as the state it leaves                           *)
(***************************************************************************)
\* O as a toggle that fires on every poll that sees the key down
ModeAfterO_Toggle(keys) ==
    IF "O" \in keys THEN ~bOrthographicProjection ELSE bOrthographicProjection

\* O as a level: Orthographic whenever the key is seen down
ModeAfterO_Level(keys) ==
    IF "O" \in keys THEN TRUE ELSE bOrthographicProjection

\* the mode after the one-tap key O has been looked at
ModeAfterO(keys) ==
    IF "O" \in keys /\ ~gToggleKeyDown_O THEN TRUE ELSE bOrthographicProjection

\* the two one-tap keys looked at in the other order, O last
ModeAfterKeys_OLast(keys) ==
    IF "O" \in keys /\ ~gToggleKeyDown_O THEN TRUE
    ELSE IF "P" \in keys /\ ~gToggleKeyDown_P THEN FALSE
    ELSE bOrthographicProjection

\* the mode after the one-tap key P has been looked at as well
ModeAfterKeys(keys) ==
    IF "P" \in keys /\ ~gToggleKeyDown_P THEN FALSE ELSE ModeAfterO(keys)

\* a step per frame, whatever time the frame took
Velocity_PerFrame(speedScale, deltaTime) == gBaseMoveSpeed * speedScale

\* gBaseMoveSpeed * gSpeedScale * gDeltaTime
Velocity(speedScale, deltaTime) == gBaseMoveSpeed * speedScale * deltaTime

\* the position after the six movement keys, applied in the code's order
MoveCamera(pos, front, up, keys, velocity) ==
    LET right == Normalize(Cross(front, up))
        p1 == IF "W" \in keys THEN VecAdd(pos, VecScale(front, velocity)) ELSE pos
        p2 == IF "S" \in keys THEN VecSub(p1, VecScale(front, velocity)) ELSE p1
        p3 == IF "A" \in keys THEN VecSub(p2, VecScale(right, velocity)) ELSE p2
        p4 == IF "D" \in keys THEN VecAdd(p3, VecScale(right, velocity)) ELSE p3
        p5 == IF "Q" \in keys THEN VecAdd(p4, VecScale(up, velocity)) ELSE p4
        p6 == IF "E" \in keys THEN VecSub(p5, VecScale(up, velocity)) ELSE p5
    IN  p6

\* camera movement applied in either mode
MovementApplies_Always(ortho) == TRUE

\* camera movement only applies in Perspective mode
MovementApplies(ortho) == ~ortho

\* a close request that lasts only as long as the key is down
CloseRequested_WhileDown(requested, keys) == "ESCAPE" \in keys

\* glfwSetWindowShouldClose(m_pWindow, true) when ESCAPE is down
CloseRequested(requested, keys) == requested \/ "ESCAPE" \in keys

\* a one-tap flag that is never cleared when the key is up
ToggleKeyDown_NoRelease(flag, key, keys) == flag \/ key \in keys

\* the one-tap flag of a mode key after the poll: set when the key is
\* down, cleared when it is up
ToggleKeyDown(flag, key, keys) ==
    IF key \in keys THEN (IF ~flag THEN TRUE ELSE flag) ELSE FALSE

ProcessKeyboardEvents(keys, deltaTime) ==
    /\ windowShouldClose' = CloseRequested(windowShouldClose, keys)
    /\ gToggleKeyDown_O' = ToggleKeyDown(gToggleKeyDown_O, "O", keys)
    /\ gToggleKeyDown_P' = ToggleKeyDown(gToggleKeyDown_P, "P", keys)
    /\ bOrthographicProjection' = ModeAfterKeys(keys)
    /\ Position' =
          IF MovementApplies(ModeAfterKeys(keys))
          THEN MoveCamera(Position, Front, Up, keys,
                          Velocity(gSpeedScale, deltaTime))
          ELSE Position

(***************************************************************************)
(* PrepareSceneView: the frame clock, the keyboard poll, the uniforms      *)
(***************************************************************************)
\* gDeltaTime = currentFrame - gLastFrame
DeltaTime(currentFrame, lastFrame) == currentFrame - lastFrame

\* what the frame records for the properties below
FrameHistory(keys, currentFrame) ==
    LET ortho == ModeAfterKeys(keys)
        changed == IF ortho # bOrthographicProjection THEN 1 ELSE 0
        again == /\ runLen >= 1
                 /\ keys = polled
                 /\ DeltaTime(currentFrame, gLastFrame) = gDeltaTime
    IN  /\ nFrames' = nFrames + 1
        /\ polled' = keys
        /\ entryPose' =
              IF ~ortho THEN << >>
              ELSE IF bOrthographicProjection THEN entryPose
              ELSE pose
        /\ IF "O" \in keys /\ "P" \notin keys /\ holdPolls >= 1
           THEN /\ holdPolls' = holdPolls + 1
                /\ holdChanges' = holdChanges + changed
           ELSE IF /\ "O" \in keys
                   /\ "P" \notin keys
                   /\ "O" \notin polled
                   /\ ~bOrthographicProjection
           THEN /\ holdPolls' = 1
                /\ holdChanges' = changed
           ELSE /\ holdPolls' = 0
                /\ holdChanges' = 0
        /\ IF ortho
           THEN /\ runLen' = 0
                /\ runStart' = << >>
           ELSE IF again
           THEN /\ runLen' = runLen + 1
                /\ runStart' = runStart
           ELSE /\ runLen' = 1
                /\ runStart' = Position

\* Camera::GetViewMatrix: look from the position along front with up
GetViewMatrix(pos, front, up) ==
    LookAt(pos, VecAdd(pos, VecScale(front, PosScale \div Scale)), up)

\* a view matrix taken from the camera in either mode
ViewMatrix_Camera(ortho, pos, front, up) == GetViewMatrix(pos, front, up)

\* the view and projection of the Orthographic branch: constants
OrthoView == LookAt(gOrthoCamPos, gOrthoTarget, WorldUp)
OrthoProjection ==
    Ortho(-RoundDiv(orthoSize * aspect, Scale), RoundDiv(orthoSize * aspect, Scale),
          -orthoSize, orthoSize, zNear, zFar)

\* the view matrix of the mode
ViewMatrix(ortho, pos, front, up) ==
    IF ortho THEN OrthoView ELSE GetViewMatrix(pos, front, up)

\* the projection matrix of the mode
ProjectionMatrix(ortho, zoom) ==
    IF ortho THEN OrthoProjection
    ELSE Perspective(zoom, aspect, zNear, zFar)

\* a view position taken from the camera in either mode
ViewPosition_Camera(ortho, pos) == pos

\* the view position of the mode
ViewPosition(ortho, pos) == IF ortho THEN gOrthoCamPos ELSE pos

\* the uniform writes of a frame without the view position
SceneUniforms_NoViewPosition(ortho, pos, front, up, zoom) ==
    << << g_ViewName, ViewMatrix(ortho, pos, front, up) >>,
       << g_ProjectionName, ProjectionMatrix(ortho, zoom) >> >>

\* the uniform writes of a frame, in the order they are made
SceneUniforms(ortho, pos, front, up, zoom) ==
    << << g_ViewName, ViewMatrix(ortho, pos, front, up) >>,
       << g_ProjectionName, ProjectionMatrix(ortho, zoom) >>,
       << "viewPosition", ViewPosition(ortho, pos) >> >>

\* what reaches the shader: nothing without a shader manager
Published(shaderManager, uniforms) ==
    IF shaderManager # NULL THEN uniforms ELSE << >>

PrepareSceneView(keys, currentFrame) ==
    /\ nEvents < MaxEvents
    /\ nEvents' = nEvents + 1
    /\ gDeltaTime' = DeltaTime(currentFrame, gLastFrame)
    /\ gLastFrame' = currentFrame
    /\ ProcessKeyboardEvents(keys, DeltaTime(currentFrame, gLastFrame))
    /\ published' =
          Published(m_pShaderManager,
                    SceneUniforms(bOrthographicProjection', Position', Front,
                                  Up, Zoom))
    /\ FrameHistory(keys, currentFrame)
    /\ UNCHANGED << Front, Up, Zoom, mouse, gSpeedScale, look, sampleTrail,
                    display >>

(***************************************************************************)
(* SceneManager: CreateGLTexture, DestroyGLTextures, PrepareScene          *)
(***************************************************************************)
\* everything the view manager owns, except what it printed
viewState ==
    << camera, mouse, clock, bOrthographicProjection, gSpeedScale, look,
       toggles, windowShouldClose, m_pWindow, callbacks, created,
       glfwTerminated, polled, nFrames, sampleTrail, entryPose, hold, run >>

\* the table counts as full only above the limit
TextureLimitReached_Late(count) == count > TextureLimit

\* m_loadedTextures >= 16
TextureLimitReached(count) == count >= TextureLimit

\* the channel counts CreateGLTexture uploads: RGB and RGBA
ChannelsSupported(channels) == channels = 3 \/ channels = 4

\* glGenTextures: the lowest texture name not in use; the names in use are
\* those of the loaded entries
GenTexture(count, table) ==
    LET used == {table[i].ID[1] : i \in 0 .. count - 1}
    IN  CHOOSE id \in 1 .. count + 1 :
            id \notin used /\ \A j \in 1 .. id - 1 : j \in used

\* one call of CreateGLTexture on a table: the value returned, the count and
\* the table it leaves, and what it prints
CreateGLTextureResult(count, table, filename, tag, image) ==
    IF TextureLimitReached(count)
    THEN [value |-> FALSE, count |-> count, table |-> table,
          out |-> << << "Texture limit reached (16). Could not load: ",
                        filename >> >>]
    ELSE IF image = NoImage
    THEN [value |-> FALSE, count |-> count, table |-> table,
          out |-> << << "Could not load image: ", filename >> >>]
    ELSE IF ~ChannelsSupported(image[1])
    THEN [value |-> FALSE, count |-> count, table |-> table,
          out |-> << << "Unsupported channel count (", image[1], ") for: ",
                        filename >> >>]
    ELSE [value |-> TRUE, count |-> count + 1,
          table |-> [table EXCEPT ![count] =
                        [tag |-> tag, ID |-> << GenTexture(count, table) >>]],
          out |-> << >>]

CreateGLTexture(filename, tag, image) ==
    LET r == CreateGLTextureResult(m_loadedTextures, m_textureIDs,
                                   filename, tag, image)
    IN  /\ nEvents < MaxEvents
        /\ nEvents' = nEvents + 1
        /\ m_loadedTextures' = r.count
        /\ m_textureIDs' = r.table
        /\ stdout' = stdout \o r.out
        /\ called' = << "CreateGLTexture", filename, tag, image, r.value >>
        /\ published' = << >>
        /\ UNCHANGED viewState

\* the table after DestroyGLTextures: the IDs of the loaded entries are
\* zeroed, the tags stay
DestroyedTable(count, table) ==
    [i \in DOMAIN table |->
        IF i < count /\ table[i].ID # << 0 >>
        THEN [table[i] EXCEPT !.ID = << 0 >>]
        ELSE table[i]]

DestroyGLTextures ==
    /\ nEvents < MaxEvents
    /\ nEvents' = nEvents + 1
    /\ m_textureIDs' = DestroyedTable(m_loadedTextures, m_textureIDs)
    /\ m_loadedTextures' = 0
    /\ called' = << "DestroyGLTextures" >>
    /\ published' = << >>
    /\ UNCHANGED << viewState, stdout >>

\* the calls of CreateGLTexture of PrepareScene from the i-th on, applied to
\* the state r: the values returned are dropped
RECURSIVE LoadSceneTextures(_, _, _)
LoadSceneTextures(i, disk, r) ==
    IF i > Len(SceneTextures) THEN r
    ELSE LET one == CreateGLTextureResult(r.count, r.table,
                        SceneTextures[i][1], SceneTextures[i][2],
                        disk[SceneTextures[i][1]])
         IN  LoadSceneTextures(i + 1, disk,
                [one EXCEPT !.out = r.out \o one.out])

PrepareScene(disk) ==
    LET r == LoadSceneTextures(1, disk,
                [value |-> TRUE, count |-> m_loadedTextures,
                 table |-> m_textureIDs, out |-> << >>])
    IN  /\ nEvents < MaxEvents
        /\ nEvents' = nEvents + 1
        /\ m_loadedTextures' = r.count
        /\ m_textureIDs' = r.table
        /\ stdout' = stdout \o r.out
        /\ called' = << "PrepareScene" >>
        /\ published' = << >>
        /\ UNCHANGED viewState

(***************************************************************************)
(* SceneManager: FindTextureSlot, SetShaderTexture                         *)
(***************************************************************************)
\* the scan from slot i on
RECURSIVE FindTextureSlotFrom(_, _)
FindTextureSlotFrom(i, tag) ==
    IF i < m_loadedTextures
    THEN IF m_textureIDs[i].tag = tag THEN i
         ELSE FindTextureSlotFrom(i + 1, tag)
    ELSE -1

\* the scan that keeps the last match
RECURSIVE FindTextureSlotLastFrom(_, _, _)
FindTextureSlotLastFrom(i, tag, found) ==
    IF i < m_loadedTextures
    THEN FindTextureSlotLastFrom(i + 1, tag,
            IF m_textureIDs[i].tag = tag THEN i ELSE found)
    ELSE found

FindTextureSlot_Last(tag) == FindTextureSlotLastFrom(0, tag, -1)

FindTextureSlot(tag) == FindTextureSlotFrom(0, tag)

\* glm::vec4(0.6f, 0.6f, 0.6f, 1.0f)
FallbackColor == << (6 * Scale) \div 10, (6 * Scale) \div 10,
                    (6 * Scale) \div 10, Scale >>

\* glm::vec4(1.0f)
TexturedColor == << Scale, Scale, Scale, Scale >>

\* the uniforms SetShaderTexture writes, in order; setIntValue takes the
\* flag as an int
TextureUniforms(slot) ==
    IF slot < 0
    THEN << << kUniformUseTexture, 0 >>,
            << kUniformObjectColor, FallbackColor >> >>
    ELSE << << kUniformUseTexture, 1 >>,
            << kUniformObjectColor, TexturedColor >>,
            << kUniformTexture, slot >> >>

SetShaderTexture(textureTag) ==
    LET slot == FindTextureSlot(textureTag)
    IN  /\ nEvents < MaxEvents
        /\ nEvents' = nEvents + 1
        /\ IF m_pShaderManager = NULL
           THEN /\ published' = << >>
                /\ stdout' = stdout
           ELSE /\ published' = TextureUniforms(slot)
                /\ stdout' = IF slot < 0
                             THEN Append(stdout,
                                     << "Texture tag not found: ", textureTag >>)
                             ELSE stdout
        /\ called' = << "SetShaderTexture", textureTag >>
        /\ UNCHANGED << viewState, textures >>

(***************************************************************************)
(* The event loop                                                          *)
(***************************************************************************)
\* what glfwCreateWindow may return
Windows == {NULL, "window"}

Startup ==
    /\ \E window \in Windows : CreateDisplayWindow(window)
    /\ UNCHANGED scene

\* GLFW calls the callbacks that have been registered
CursorSample ==
    /\ "CursorPos" \in callbacks
    /\ \E c \in CursorSamples : Mouse_Position_Callback(c[1], c[2])
    /\ UNCHANGED scene

ScrollSample ==
    /\ "Scroll" \in callbacks
    /\ \E xOffset \in ScrollXOffsets, yOffset \in ScrollOffsets :
          Mouse_Scroll_Callback(xOffset, yOffset)
    /\ UNCHANGED scene

\* the render loop runs on the window CreateDisplayWindow has returned;
\* without one, startup is aborted
WindowReady == created \notin {NULL, "not called"}

Frame ==
    /\ WindowReady
    /\ \E keys \in KeySets, dt \in DeltaTimes :
          PrepareSceneView(keys, gLastFrame + dt)
    /\ UNCHANGED scene

Next == Startup \/ CursorSample \/ ScrollSample \/ Frame

Spec == Init /\ [][Next]_vars

\* the calls made on the scene manager: PrepareScene at startup, single
\* texture loads, the release of the textures, the texture of a draw
SceneLoad == \E disk \in Disks : PrepareScene(disk)

TextureLoad ==
    \E args \in TextureArgs, image \in Images :
        CreateGLTexture(args[1], args[2], image)

TextureRelease == DestroyGLTextures

TextureSelect == \E textureTag \in TextureTags : SetShaderTexture(textureTag)

NextTextures == SceneLoad \/ TextureLoad \/ TextureRelease \/ TextureSelect

SpecTextures == Init /\ [][NextTextures]_vars

(***************************************************************************)
(* Properties                                                              *)
(***************************************************************************)
\* |v| = 1 within the resolution of the fixed-point representation
IsUnit(v) ==
    /\ Dot(v, v) - Scale * Scale <= (Scale * Scale) \div 1000
    /\ Scale * Scale - Dot(v, v) <= (Scale * Scale) \div 1000

\* two unit vectors agree within 0.005 in every component
Near(a, b) ==
    \A i \in 1..3 : a[i] - b[i] <= Scale \div 200 /\ b[i] - a[i] <= Scale \div 200

\* C1: in every reachable state the stored pitch is within [-89, 89]
\* degrees, also right after a cursor sample with a huge vertical delta.
C1_PitchWithinLimit == -PitchLimit <= gPitch /\ gPitch <= PitchLimit

\* a huge upward sample has just been clamped to +89 degrees
C1_Witness ==
    /\ gPitch = PitchLimit
    /\ gLastY = HugeY
    /\ sampleTrail # "ortho"

\* C2: while O is held over consecutive polls that began in Perspective
\* with O released, and P is not pressed, the mode has changed exactly
\* once, on the first of these polls, and is Orthographic.
C2_HeldKeyOneTransition ==
    holdPolls >= 1 => holdChanges = 1 /\ bOrthographicProjection

\* O has been seen down by three polls in a row
C2_Witness == holdPolls >= 3 /\ holdChanges = 1

\* C3: a frame poll that ends in Orthographic mode leaves the camera
\* position as it was, whatever movement keys, deltaTime and speedScale.
C3_OrthoPollKeepsPosition ==
    [][(nFrames' # nFrames /\ bOrthographicProjection') => Position' = Position]_vars

\* a poll with movement keys held and time elapsed has ended in Orthographic
C3_Witness ==
    /\ bOrthographicProjection
    /\ polled \cap MoveKeys # {}
    /\ gDeltaTime > 0
    /\ gSpeedScale # SpeedUnit

\* the step is the cursor callback called with sample c (a step that leaves
\* the frame count and the speed scale alone, as the callback does)
CursorStep(c) ==
    /\ nFrames' = nFrames
    /\ gSpeedScale' = gSpeedScale
    /\ Mouse_Position_Callback(c[1], c[2])

\* C4: a cursor sample in Orthographic mode is consumed (last cursor
\* position set to it, first-sample flag cleared) and leaves yaw, pitch and
\* front alone; the first sample after the return to Perspective is
\* measured from the last position seen in Orthographic mode.
C4_OrthoSampleConsumed ==
    [][\A c \in CursorSamples :
          CursorStep(c) =>
             /\ bOrthographicProjection =>
                   /\ gLastX' = c[1] /\ gLastY' = c[2]
                   /\ gFirstMouse' = FALSE
                   /\ UNCHANGED << gYaw, gPitch, Front >>
             /\ (sampleTrail = "ortho" /\ ~bOrthographicProjection) =>
                   /\ gYaw' = gYaw + (c[1] - gLastX) * gMouseSensitivity
                   /\ gPitch' =
                         ClampPitch(gPitch + (gLastY - c[2]) * gMouseSensitivity)
      ]_vars

\* a Perspective sample has followed an Orthographic one and turned the view
C4_Witness == sampleTrail = "ortho-persp" /\ gYaw # InitYaw

\* C5: all the time the mode is Orthographic, position, yaw, pitch and
\* front are what they were when Orthographic mode was entered, so the
\* poll that switches back to Perspective starts from that pose.
C5_OrthoRoundTripKeepsPose == bOrthographicProjection => pose = entryPose

\* in Orthographic mode a cursor sample was consumed and a later poll saw
\* movement keys
C5_Witness ==
    /\ bOrthographicProjection
    /\ sampleTrail = "ortho"
    /\ << gLastX, gLastY >> # << WINDOW_WIDTH \div 2, WINDOW_HEIGHT \div 2 >>
    /\ "O" \notin polled
    /\ polled \cap MoveKeys # {}
    /\ gDeltaTime > 0

\* C6: as long as yaw and pitch are the ones derived at construction, the
\* look direction is the normalized initial front (a cursor sample with
\* zero offset in Perspective mode does not turn the camera).
C6_AnglesReconstructFront ==
    (gYaw = InitYaw /\ gPitch = InitPitch) =>
        Near(Normalize(Front), Normalize(InitFront))

\* C7: once the camera has been mutated (moved or turned), front and up are
\* unit-length.
C7_FrontUpUnit ==
    (Position # InitPosition \/ Front # InitFront) => IsUnit(Front) /\ IsUnit(Up)

\* C8: the first frame tick yields deltaTime = 0 and so moves nothing.
C8_FirstDeltaZero ==
    nFrames = 1 => gDeltaTime = 0 /\ Position = InitPosition

\* C9: in every reachable state speedScale is within [0.10, 5.00].
C9_SpeedWithinLimits == SpeedMin <= gSpeedScale /\ gSpeedScale <= SpeedMax

\* a scroll sample has been clamped to the lower limit
C9_Witness == gSpeedScale = SpeedMin

\* C10: after N polls in a row in Perspective mode with the same keys and
\* the same deltaTime dt, speedScale and front unchanged, the position is
\* the one a single poll with deltaTime N * dt gives from the same start.
C10_FrameRateIndependent ==
    runLen >= 1 =>
        Position = MoveCamera(runStart, Front, Up, polled,
                              Velocity(gSpeedScale, runLen * gDeltaTime))

\* three identical polls in a row have moved the camera
C10_Witness == runLen >= 3 /\ Position # runStart /\ gSpeedScale # SpeedUnit

\* the step is a frame poll that sees key k down after it was up
PressEdge(k, flag) == nFrames' # nFrames /\ k \in polled' /\ ~flag

\* C11: the mode is Perspective until the first poll; a poll that sees a
\* press edge of O and none of P ends in Orthographic, a poll that sees a
\* press edge of P ends in Perspective; a press edge of the key of the mode
\* already active leaves the mode, the look angles, front, up and zoom as
\* they were, and the position too unless movement keys are held.
C11_EdgeEntersMode ==
    /\ [](nFrames = 0 => ~bOrthographicProjection)
    /\ [][/\ (PressEdge("O", gToggleKeyDown_O) /\ ~PressEdge("P", gToggleKeyDown_P))
              => bOrthographicProjection'
          /\ PressEdge("P", gToggleKeyDown_P) => ~bOrthographicProjection'
          /\ (\/ /\ PressEdge("O", gToggleKeyDown_O)
                 /\ ~PressEdge("P", gToggleKeyDown_P)
                 /\ bOrthographicProjection
              \/ PressEdge("P", gToggleKeyDown_P) /\ ~bOrthographicProjection)
              => /\ UNCHANGED << bOrthographicProjection, Front, Up, Zoom, look >>
                 /\ polled' \cap MoveKeys = {} => Position' = Position
         ]_vars

\* the first poll entered Orthographic on a press edge of O, a cursor sample
\* was consumed there, and the second poll returned on a press edge of P
C11_Witness ==
    /\ nFrames = 2
    /\ sampleTrail = "ortho"
    /\ "P" \in polled
    /\ ~bOrthographicProjection

\* C11 as stated: every poll that sees a press edge of O ends in
\* Orthographic, also when the same poll sees a press edge of P.
C11_EveryOEdgeEntersOrtho ==
    [][PressEdge("O", gToggleKeyDown_O) => bOrthographicProjection']_vars

\* C15: a cursor sample that is not the first one turns yaw by 0.10 degrees
\* per pixel of x - gLastX in Perspective mode (by 5 degrees for dx = 50
\* and, with dy = 0, leaves pitch alone) and leaves yaw alone in
\* Orthographic mode.
C15_YawPerPixel ==
    [][\A c \in CursorSamples :
          (~gFirstMouse /\ CursorStep(c)) =>
             /\ ~bOrthographicProjection =>
                   /\ 10 * (gYaw' - gYaw) = (c[1] - gLastX) * AngleUnit
                   /\ (c[1] - gLastX = 50 /\ c[2] = gLastY) =>
                         /\ gYaw' = gYaw + 5 * AngleUnit
                         /\ gPitch' = gPitch
             /\ bOrthographicProjection => gYaw' = gYaw
      ]_vars

\* a sample 50 pixels to the right of the previous one has turned the view
C15_Witness ==
    /\ gYaw = InitYaw + 5 * AngleUnit
    /\ gPitch = InitPitch
    /\ gLastX = 550
    /\ sampleTrail = "persp"

\* C16: a scroll sample sets the speed scale to
\* clamp(speedScale + 0.10 * yOffset, 0.10, 5.00) in either mode; yOffset =
\* -60 from 1.0 gives exactly 0.10.
C16_ScrollSetsSpeed ==
    [][\A x \in ScrollXOffsets, y \in ScrollOffsets :
          Mouse_Scroll_Callback(x, y) =>
             LET raw == 10 * gSpeedScale + y * SpeedUnit
                 lo == SpeedUnit
                 hi == 50 * SpeedUnit
             IN  /\ 10 * gSpeedScale' =
                       IF raw < lo THEN lo ELSE IF raw > hi THEN hi ELSE raw
                 /\ (gSpeedScale = SpeedUnit /\ y = -60) =>
                       10 * gSpeedScale' = SpeedUnit
      ]_vars

\* the only event so far was a scroll sample of -60 from 1.0
C16_Witness == nEvents = 1 /\ 10 * gSpeedScale = SpeedUnit

\* C17: a scroll sample changes the speed scale only (zoom, position, yaw,
\* pitch, front, mode, last cursor position, first-sample flag and the
\* one-tap flags stay), and the new speed scale does not depend on the
\* horizontal component.
C17_ScrollOnlySpeed ==
    [][\A x \in ScrollXOffsets, y \in ScrollOffsets :
          Mouse_Scroll_Callback(x, y) =>
             /\ UNCHANGED << camera, look, bOrthographicProjection, mouse,
                             toggles >>
             /\ gSpeedScale' = ClampSpeed(gSpeedScale + y * ScrollStep)
      ]_vars

\* a scroll sample has arrived in Orthographic mode after a cursor sample
\* and has changed the speed scale
C17_Witness ==
    /\ nEvents = 3
    /\ bOrthographicProjection
    /\ ~gFirstMouse
    /\ runLen = 0
    /\ gSpeedScale # SpeedUnit

\* C20: the first cursor sample (x, y) sets the last cursor position to
\* (x, y), leaves yaw and pitch as they were wherever (x, y) is, and clears
\* the first-sample flag; the flag, once cleared, stays cleared.
C20_FirstSampleSeeds ==
    /\ [][\A c \in CursorSamples :
             (gFirstMouse /\ CursorStep(c)) =>
                /\ gLastX' = c[1] /\ gLastY' = c[2]
                /\ gYaw' = gYaw /\ gPitch' = gPitch
                /\ ~gFirstMouse'
         ]_vars
    /\ [][~gFirstMouse => ~gFirstMouse']_vars

\* the first sample was far outside the window, and events have followed
C20_Witness ==
    /\ ~gFirstMouse
    /\ gLastY = HugeY
    /\ gPitch = InitPitch
    /\ gYaw = InitYaw
    /\ sampleTrail = "persp"
    /\ nEvents >= 2

\* C12: the uniforms a frame publishes are all of the frame's mode: in
\* Perspective the camera's view matrix (look from Position along Front
\* with Up), the perspective projection of the camera's zoom and the eye
\* at Position; in Orthographic lookAt(fixed eye, fixed target, world up),
\* the ortho projection of half-extent 0.85 and the fixed eye, whatever
\* the camera holds.
C12_UniformsOfOneMode ==
    published # << >> =>
        LET view == published[1][2]
            projection == published[2][2]
            eye == published[3][2]
            half == (85 * Scale) \div 100
            wide == (85 * Scale * WINDOW_WIDTH) \div (100 * WINDOW_HEIGHT)
        IN  IF bOrthographicProjection
            THEN /\ view = << "lookAt", gOrthoCamPos, gOrthoTarget,
                              << 0, Scale, 0 >> >>
                 /\ projection = << "ortho", -wide, wide, -half, half,
                                    Scale \div 10, 100 * Scale >>
                 /\ eye = gOrthoCamPos
            ELSE /\ view = << "lookAt", Position,
                              << Position[1] + Front[1] * (PosScale \div Scale),
                                 Position[2] + Front[2] * (PosScale \div Scale),
                                 Position[3] + Front[3] * (PosScale \div Scale) >>,
                              Up >>
                 /\ projection = << "perspective", Zoom,
                                    (WINDOW_WIDTH * Scale) \div WINDOW_HEIGHT,
                                    Scale \div 10, 100 * Scale >>
                 /\ eye = Position

\* a Perspective frame has published the uniforms of a camera that has
\* been turned and moved
C12_Witness ==
    /\ published # << >>
    /\ ~bOrthographicProjection
    /\ Position # InitPosition
    /\ Front # InitFront

\* C13: every call of PrepareSceneView hands the shader exactly three
\* uniforms: "view", "projection" and "viewPosition", each once.
C13_ThreeUniformsPerFrame ==
    [][nFrames' # nFrames =>
          /\ Len(published') = 3
          /\ << published'[1][1], published'[2][1], published'[3][1] >> =
                << "view", "projection", "viewPosition" >>
      ]_vars

\* frames in both modes have published their uniforms
C13_Witness ==
    /\ Len(published) = 3
    /\ bOrthographicProjection
    /\ nFrames >= 2
    /\ sampleTrail = "persp"

\* C14: whatever cursor samples, scroll samples and movement keys came
\* before, a frame in Orthographic mode publishes one and the same view
\* matrix, projection matrix and eye position.
C14_OrthoOutputFixed ==
    (bOrthographicProjection /\ published # << >>) =>
        published = << << "view", OrthoView >>,
                       << "projection", OrthoProjection >>,
                       << "viewPosition", gOrthoCamPos >> >>

\* an Orthographic frame has been published after the camera was turned
\* and moved and the speed scale changed
C14_Witness ==
    /\ bOrthographicProjection
    /\ published # << >>
    /\ Position # InitPosition
    /\ Front # InitFront
    /\ gSpeedScale # SpeedUnit

\* C18: a poll that sees ESCAPE down sets the close-requested flag and
\* otherwise does what the same poll without ESCAPE does: the one-tap
\* flags, the mode, the movement and the three uniforms are those of the
\* other keys; the flag, once set, stays set.
C18_QuitOnlySetsFlag ==
    /\ [][(nFrames' # nFrames /\ "ESCAPE" \in polled') =>
             LET keys == polled' \ {"ESCAPE"}
                 ortho == ModeAfterKeys(keys)
             IN  /\ windowShouldClose'
                 /\ gToggleKeyDown_O' = ("O" \in keys)
                 /\ gToggleKeyDown_P' = ("P" \in keys)
                 /\ bOrthographicProjection' = ortho
                 /\ Position' =
                       IF ortho THEN Position
                       ELSE MoveCamera(Position, Front, Up, keys,
                                       Velocity(gSpeedScale, gDeltaTime'))
                 /\ Len(published') = 3
         ]_vars
    /\ [][windowShouldClose => windowShouldClose']_vars

\* the second poll saw ESCAPE, P and W in Orthographic mode: the flag is
\* set, the mode is Perspective again, the camera has moved and the
\* uniforms are published
C18_Witness ==
    /\ windowShouldClose
    /\ nFrames = 2
    /\ sampleTrail = "ortho"
    /\ "ESCAPE" \in polled
    /\ ~bOrthographicProjection
    /\ Position # InitPosition
    /\ Len(published) = 3

\* C19: when glfwCreateWindow fails, CreateDisplayWindow writes the
\* failure message and returns NULL, m_pWindow stays NULL and no cursor or
\* scroll callback is registered; no callback and no frame runs afterwards.
C19_FailedWindowAborts ==
    created = NULL =>
        /\ stdout = << "Failed to create GLFW window" >>
        /\ m_pWindow = NULL
        /\ callbacks = {}
        /\ nEvents = 0
        /\ published = << >>

\* window creation has failed
C19_Witness == created = NULL /\ glfwTerminated

\* +1, -1 or 0: the net count of a key and its opposite in a poll
NetKeys(keys, plus, minus) ==
    (IF plus \in keys THEN 1 ELSE 0) - (IF minus \in keys THEN 1 ELSE 0)

\* C21: a poll that ends in Perspective mode moves the camera by
\* 6 * speedScale * deltaTime per held key along unit directions: W/S
\* along +/- front, D/A along +/- normalize(cross(front, up)), Q/E along
\* +/- up; keys not held add nothing and opposite keys cancel.
C21_UnitStepPerKey ==
    [][(nFrames' # nFrames /\ ~bOrthographicProjection') =>
          LET step == 6 * gSpeedScale * gDeltaTime'
              right == Normalize(Cross(Front, Up))
              moved == VecSub(Position', Position)
          IN  /\ polled' \cap {"W", "S"} # {} => IsUnit(Front)
              /\ polled' \cap {"Q", "E"} # {} => IsUnit(Up)
              /\ moved =
                    VecAdd(VecAdd(VecScale(Front, step * NetKeys(polled', "W", "S")),
                                  VecScale(right, step * NetKeys(polled', "D", "A"))),
                           VecScale(Up, step * NetKeys(polled', "Q", "E")))
      ]_vars

\* C22: the last cursor position, the first-sample flag and the speed
\* scale are changed by the input callbacks only (no frame poll changes
\* them); the one-tap flags of the mode keys are changed by the frame poll
\* only (no callback changes them).
C22_InputStateWriters ==
    /\ [][nFrames' # nFrames => UNCHANGED << mouse, gSpeedScale >>]_vars
    /\ [][nFrames' = nFrames => UNCHANGED toggles]_vars

\* both callbacks have written their fields, then a poll has set the
\* one-tap flag of O and left those fields alone
C22_Witness ==
    /\ gToggleKeyDown_O
    /\ published # << >>
    /\ ~gFirstMouse
    /\ gSpeedScale # SpeedUnit

\* C22 as stated: no frame poll changes the last cursor position, the
\* first-sample flag, the speed scale or the one-tap flags.
C22_NoPollWritesInputState ==
    [][nFrames' # nFrames => UNCHANGED << mouse, gSpeedScale, toggles >>]_vars

\* C23: a poll that sees O still down (down at the previous poll too)
\* leaves a Perspective mode Perspective, so after O, then P with O kept
\* held, the mode stays Perspective as long as O is held; a poll enters
\* Orthographic only if it sees O down and the previous poll (if any) saw
\* O up.
C23_HeldKeyNoRetrigger ==
    [][nFrames' # nFrames =>
          /\ ("O" \in polled /\ "O" \in polled' /\ ~bOrthographicProjection)
                => ~bOrthographicProjection'
          /\ (~bOrthographicProjection /\ bOrthographicProjection')
                => ("O" \in polled' /\ "O" \notin polled)
      ]_vars

\* O entered Orthographic (a cursor sample was consumed there), P was
\* pressed with O still held, and a third poll saw O still down: the mode
\* is Perspective
C23_Witness ==
    /\ nFrames = 3
    /\ sampleTrail = "ortho"
    /\ polled = {"O"}
    /\ ~bOrthographicProjection

\* C24: a poll that sees press edges of both O and P ends in Perspective
\* mode, whatever the mode before it.
C24_BothEdgesEndPerspective ==
    [][(PressEdge("O", gToggleKeyDown_O) /\ PressEdge("P", gToggleKeyDown_P))
          => ~bOrthographicProjection'
      ]_vars

\* the first poll saw O and P down together
C24_Witness ==
    /\ nFrames = 1
    /\ polled = {"O", "P"}
    /\ gToggleKeyDown_O /\ gToggleKeyDown_P
    /\ ~bOrthographicProjection

\* C25: a mode change acts in the frame that detects it: a frame that
\* enters Orthographic moves nothing and publishes the fixed view,
\* projection and eye; a frame that enters Perspective applies the
\* movement keys of that frame and publishes view, projection and eye of
\* the camera as moved.
C25_ModeChangeSameFrame ==
    [][nFrames' # nFrames =>
          /\ (~bOrthographicProjection /\ bOrthographicProjection') =>
                /\ Position' = Position
                /\ published' = << << "view", OrthoView >>,
                                   << "projection", OrthoProjection >>,
                                   << "viewPosition", gOrthoCamPos >> >>
          /\ (bOrthographicProjection /\ ~bOrthographicProjection') =>
                /\ Position' =
                      MoveCamera(Position, Front, Up, polled',
                                 Velocity(gSpeedScale, gDeltaTime'))
                /\ published' =
                      << << "view", GetViewMatrix(Position', Front', Up') >>,
                         << "projection",
                            Perspective(Zoom', aspect, zNear, zFar) >>,
                         << "viewPosition", Position' >> >>
      ]_vars

\* the poll that returned to Perspective saw W as well: the camera has
\* moved in that frame and the eye published is the new position
C25_Witness ==
    /\ nFrames = 2
    /\ sampleTrail = "ortho"
    /\ {"P", "W"} \subseteq polled
    /\ ~bOrthographicProjection
    /\ Position # InitPosition
    /\ published # << >>
    /\ published[3][2] = Position

\* C26: each one-tap flag equals the state of its key as the latest poll
\* saw it (up before the first poll), and a poll sets the mode exactly on
\* the keys that are down now and were up at the previous poll: P to
\* Perspective, else O to Orthographic, else no change.
C26_FlagsMirrorKeys ==
    /\ [](/\ gToggleKeyDown_O = ("O" \in polled)
          /\ gToggleKeyDown_P = ("P" \in polled))
    /\ [][nFrames' # nFrames =>
             bOrthographicProjection' =
                IF "P" \in polled' /\ "P" \notin polled THEN FALSE
                ELSE IF "O" \in polled' /\ "O" \notin polled THEN TRUE
                ELSE bOrthographicProjection
         ]_vars

\* O was pressed, then released while P was pressed: the flags follow
C26_Witness ==
    /\ nFrames = 2
    /\ sampleTrail = "ortho"
    /\ ~gToggleKeyDown_O
    /\ gToggleKeyDown_P
    /\ ~bOrthographicProjection

\* C27: a cursor sample leaves the position, the speed scale, the mode
\* and the one-tap flags alone; a frame poll leaves yaw, pitch, front, up,
\* zoom, the last cursor position, the first-sample flag and the speed
\* scale alone; up is (0, 1, 0) and zoom is 80 in every reachable state.
C27_ChannelsSeparated ==
    /\ [](Up = << 0, Scale, 0 >> /\ Zoom = 80 * AngleUnit)
    /\ [][\A c \in CursorSamples :
             CursorStep(c) =>
                UNCHANGED << Position, gSpeedScale, bOrthographicProjection,
                             toggles >>
         ]_vars
    /\ [][nFrames' # nFrames =>
             UNCHANGED << look, Front, Up, Zoom, mouse, gSpeedScale >>
         ]_vars

\* cursor samples have turned the camera and a later poll has moved it
C27_Witness ==
    /\ published # << >>
    /\ ~bOrthographicProjection
    /\ gYaw # InitYaw
    /\ gPitch # InitPitch
    /\ Position # InitPosition
    /\ gToggleKeyDown_P

\* C28: the count of loaded textures stays within 0..16; a call of
\* CreateGLTexture made when 16 textures are loaded, or whose image does not
\* load or has a channel count other than 3 and 4, returns false and leaves
\* the count and the table as they were; any other call returns true and
\* writes exactly one entry, at the end of the loaded ones, with the tag
\* given; DestroyGLTextures leaves the count at 0.
C28_TextureCountBounded ==
    /\ [](m_loadedTextures \in 0 .. 16)
    /\ [][(nEvents' # nEvents /\ called' # << >>
             /\ called'[1] = "CreateGLTexture") =>
            LET tag == called'[3]
                image == called'[4]
                value == called'[5]
            IN  IF \/ m_loadedTextures = 16
                   \/ image = NoImage
                   \/ image[1] \notin {3, 4}
                THEN ~value /\ UNCHANGED textures
                ELSE /\ value
                     /\ m_loadedTextures' = m_loadedTextures + 1
                     /\ m_textureIDs'[m_loadedTextures].tag = tag
                     /\ Len(m_textureIDs'[m_loadedTextures].ID) = 1
                     /\ \A i \in DOMAIN m_textureIDs \ {m_loadedTextures} :
                           m_textureIDs'[i] = m_textureIDs[i]]_vars
    /\ [][(nEvents' # nEvents /\ called' = << "DestroyGLTextures" >>) =>
            m_loadedTextures' = 0]_vars

\* a call with a loadable RGB image was refused with 16 textures loaded
C28_Witness ==
    /\ m_loadedTextures = 16
    /\ called # << >>
    /\ called[1] = "CreateGLTexture"
    /\ called[4] = << 3 >>
    /\ ~called[5]

\* the lowest loaded slot that carries the tag, -1 when none does
LowestSlot(tag) ==
    LET hits == {i \in 0 .. m_loadedTextures - 1 : m_textureIDs[i].tag = tag}
    IN  IF hits = {} THEN -1
        ELSE CHOOSE i \in hits : \A j \in hits : i <= j

\* C29: FindTextureSlot returns the lowest index below the count of loaded
\* textures whose tag is the one asked for, and -1 when no loaded texture
\* carries it; SetShaderTexture with a tag that is not loaded writes
\* bUseTexture = false and the gray (0.6, 0.6, 0.6, 1.0) objectColor and no
\* sampler; with a loaded tag it writes bUseTexture = true and the sampler
\* objectTexture once, with the slot of that tag.
C29_SlotOfTag ==
    /\ [](\A tag \in TextureTags \cup {"", "rubber"} :
             FindTextureSlot(tag) = LowestSlot(tag))
    /\ [][(nEvents' # nEvents /\ called' # << >>
             /\ called'[1] = "SetShaderTexture") =>
            LET slot == LowestSlot(called'[2])
                gray == (6 * Scale) \div 10
                Writes(name) ==
                    {k \in 1 .. Len(published') : published'[k][1] = name}
            IN  /\ UNCHANGED textures
                /\ \A k \in Writes("bUseTexture") :
                      published'[k][2] = IF slot < 0 THEN 0 ELSE 1
                /\ Writes("bUseTexture") # {}
                /\ IF slot < 0
                   THEN /\ Writes("objectTexture") = {}
                        /\ Writes("objectColor") # {}
                        /\ \A k \in Writes("objectColor") :
                              published'[k][2] = << gray, gray, gray, Scale >>
                   ELSE /\ Cardinality(Writes("objectTexture")) = 1
                        /\ \A k \in Writes("objectTexture") :
                              published'[k][2] = slot]_vars

\* "wood" is loaded twice, in slots 0 and 8, and the draw selected slot 0
C29_Witness ==
    /\ called = << "SetShaderTexture", "wood" >>
    /\ m_loadedTextures > 8
    /\ m_textureIDs[0].tag = "wood"
    /\ m_textureIDs[8].tag = "wood"
    /\ published = << << "bUseTexture", 1 >>,
                      << "objectColor", << Scale, Scale, Scale, Scale >> >>,
                      << "objectTexture", 0 >> >>

\* a tag of the released table is asked for: the gray fallback is written
C29_MissingWitness ==
    /\ called = << "SetShaderTexture", "wood" >>
    /\ m_loadedTextures = 0
    /\ m_textureIDs[0].tag = "wood"
    /\ Len(published) = 2


====
